---- MODULE Spec2Model ----
(***************************************************************************)
(* Zodiac sign server (server.js): the sign classifier                     *)
(* calculateZodiacSign, the validation chain zodiacValidation, the         *)
(* POST /api/zodiac handler with its read-modify-write of data.json, and   *)
(* the GET /api/recent handler.                                            *)
(***************************************************************************)
EXTENDS Integers, Sequences, FiniteSets, TLC

(***************************************************************************)
(* Bounds of the model.                                                    *)
(***************************************************************************)
\* number of request handlers that can be in flight at once
NumProcs == 2
\* number of POST /api/zodiac requests that pass validation in one run
MaxSubmits == 2
\* number of clock ticks that pass in one run
MaxTicks == 1
\* clock ticks per day (the real clock has 86400000 ms per day)
TicksPerDay == 2

(***************************************************************************)
(* The sign table and the classifier.                                      *)
(***************************************************************************)
\* NaN: the month and day of an invalid Date
NaN == 0 - 1

\* an entry cut down to its start month (a variant the properties must tell from
\* the code)
EntryWithinMonth(s, sm, sd, em, ed) ==
    [sign |-> s, startMonth |-> sm, startDay |-> sd, endMonth |-> sm, endDay |-> 31]

Entry(s, sm, sd, em, ed) ==
    [sign |-> s, startMonth |-> sm, startDay |-> sd, endMonth |-> em, endDay |-> ed]

\* a table with one start day off by one (a variant the properties must tell from the code)
zodiacSignsShifted ==
    << Entry("Capricorn", 12, 22, 1, 19),
       Entry("Aquarius", 1, 21, 2, 18),
       Entry("Pisces", 2, 19, 3, 20),
       Entry("Aries", 3, 21, 4, 19),
       Entry("Taurus", 4, 20, 5, 20),
       Entry("Gemini", 5, 21, 6, 20),
       Entry("Cancer", 6, 21, 7, 22),
       Entry("Leo", 7, 23, 8, 22),
       Entry("Virgo", 8, 23, 9, 22),
       Entry("Libra", 9, 23, 10, 22),
       Entry("Scorpio", 10, 23, 11, 21),
       Entry("Sagittarius", 11, 22, 12, 21) >>

zodiacSigns ==
    << Entry("Capricorn", 12, 22, 1, 19),
       Entry("Aquarius", 1, 20, 2, 18),
       Entry("Pisces", 2, 19, 3, 20),
       Entry("Aries", 3, 21, 4, 19),
       Entry("Taurus", 4, 20, 5, 20),
       Entry("Gemini", 5, 21, 6, 20),
       Entry("Cancer", 6, 21, 7, 22),
       Entry("Leo", 7, 23, 8, 22),
       Entry("Virgo", 8, 23, 9, 22),
       Entry("Libra", 9, 23, 10, 22),
       Entry("Scorpio", 10, 23, 11, 21),
       Entry("Sagittarius", 11, 22, 12, 21) >>

\* JavaScript comparisons of numbers: every comparison with NaN is false
NumEq(a, b) == a # NaN /\ b # NaN /\ a = b
NumGe(a, b) == a # NaN /\ b # NaN /\ a >= b
NumLe(a, b) == a # NaN /\ b # NaN /\ a <= b

\* the cross-month rule with the end day excluded (a variant the properties must tell from the code)
MatchesExclusiveEnd(zodiac, month, day) ==
    IF zodiac.startMonth = zodiac.endMonth
    THEN NumEq(month, zodiac.startMonth) /\ NumGe(day, zodiac.startDay)
                                         /\ NumLe(day, zodiac.endDay)
    ELSE \/ NumEq(month, zodiac.startMonth) /\ NumGe(day, zodiac.startDay)
         \/ NumEq(month, zodiac.endMonth) /\ NumLe(day + 1, zodiac.endDay)

\* the condition under which the loop body returns zodiac.sign
Matches(zodiac, month, day) ==
    IF zodiac.startMonth = zodiac.endMonth
    THEN NumEq(month, zodiac.startMonth) /\ NumGe(day, zodiac.startDay)
                                         /\ NumLe(day, zodiac.endDay)
    ELSE \/ NumEq(month, zodiac.startMonth) /\ NumGe(day, zodiac.startDay)
         \/ NumEq(month, zodiac.endMonth) /\ NumLe(day, zodiac.endDay)

\* the for loop over a table: the first matching entry's sign, else 'Unknown'
RECURSIVE ScanTable(_, _, _)
ScanTable(table, month, day) ==
    IF table = << >> THEN "Unknown"
    ELSE IF Matches(Head(table), month, day) THEN Head(table).sign
    ELSE ScanTable(Tail(table), month, day)

\* calculateZodiacSign on the (month, day) read from its Date argument
calculateZodiacSign(month, day) == ScanTable(zodiacSigns, month, day)

(***************************************************************************)
(* JavaScript Date: a time value in clock ticks since 1970-01-01T00:00Z,   *)
(* or an invalid Date (time value NaN).                                    *)
(***************************************************************************)
Date(t) == [valid |-> TRUE, time |-> t]
InvalidDate == [valid |-> FALSE, time |-> 0]

\* day number of a proleptic Gregorian date, 1970-01-01 being day 0
DaysFromCivil(y, m, d) ==
    LET yy  == IF m <= 2 THEN y - 1 ELSE y
        era == yy \div 400
        yoe == yy - era * 400
        mp  == (m + 9) % 12
        doy == (153 * mp + 2) \div 5 + d - 1
        doe == yoe * 365 + yoe \div 4 - yoe \div 100 + doy
    IN  era * 146097 + doe - 719468

\* the Gregorian date of a day number
CivilFromDays(n) ==
    LET z   == n + 719468
        era == z \div 146097
        doe == z - era * 146097
        yoe == (doe - doe \div 1460 + doe \div 36524 - doe \div 146096) \div 365
        doy == doe - (365 * yoe + yoe \div 4 - yoe \div 100)
        mp  == (5 * doy + 2) \div 153
        d   == doy - (153 * mp + 2) \div 5 + 1
        m   == IF mp < 10 THEN mp + 3 ELSE mp - 9
    IN  [year |-> IF m <= 2 THEN yoe + era * 400 + 1 ELSE yoe + era * 400,
         month |-> m, day |-> d]

\* a dateOfBirth string: "date" is YYYY-MM-DD, "week" is YYYY-Www (an ISO 8601
\* week date), "text" is anything that is not ISO 8601 (such as 15/05/1990)
DateString(y, m, d) == [fmt |-> "date", year |-> y, month |-> m, day |-> d, week |-> 0]
WeekString(y, w) == [fmt |-> "week", year |-> y, month |-> 0, day |-> 0, week |-> w]
TextString == [fmt |-> "text", year |-> 0, month |-> 0, day |-> 0, week |-> 0]

\* isISO8601(): the pattern admits months 01-12, days 01-31 and weeks 01-53
isISO8601(value) ==
    \/ value.fmt = "date" /\ value.month \in 1..12 /\ value.day \in 1..31
    \/ value.fmt = "week" /\ value.week \in 1..53

\* new Date(value): a date-only string is midnight UTC of that day, with a day
\* past the end of its month running into the next month; any other form
\* modelled here does not parse and gives an invalid Date
NewDate(value) ==
    IF value.fmt = "date" /\ value.month \in 1..12 /\ value.day \in 1..31
    THEN Date((DaysFromCivil(value.year, value.month, 1) + value.day - 1) * TicksPerDay)
    ELSE InvalidDate

\* date.getMonth() (0-11) and date.getDate() in the server's time zone, whose
\* offset from UTC is tz ticks; NaN for an invalid Date
getMonth(date, tz) ==
    IF date.valid THEN CivilFromDays((date.time + tz) \div TicksPerDay).month - 1 ELSE NaN
getDate(date, tz) ==
    IF date.valid THEN CivilFromDays((date.time + tz) \div TicksPerDay).day ELSE NaN

\* a + 1 in JavaScript arithmetic
PlusOne(a) == IF a = NaN THEN NaN ELSE a + 1

\* date comparisons: every comparison with an invalid Date is false
DateGt(a, b) == a.valid /\ b.valid /\ a.time > b.time
DateLt(a, b) == a.valid /\ b.valid /\ a.time < b.time

\* lines 90-91 and the call of line 187: the sign of a Date
SignOfDate(date, tz) == calculateZodiacSign(PlusOne(getMonth(date, tz)), getDate(date, tz))

\* new Date().toISOString(): the UTC date and the time of day of a time value
toISOString(t) ==
    LET c == CivilFromDays(t \div TicksPerDay)
    IN  << c.year, c.month, c.day, t % TicksPerDay >>

(***************************************************************************)
(* Names and the validation chain zodiacValidation.                        *)
(***************************************************************************)
\* a name is a sequence of one-character strings
Letters ==
    { "a", "b", "c", "d", "e", "f", "g", "h", "i", "j", "k", "l", "m",
      "n", "o", "p", "q", "r", "s", "t", "u", "v", "w", "x", "y", "z",
      "A", "B", "C", "D", "E", "F", "G", "H", "I", "J", "K", "L", "M",
      "N", "O", "P", "Q", "R", "S", "T", "U", "V", "W", "X", "Y", "Z" }
\* the characters \s matches (of those the model uses): space and tab
Whitespace == { " ", "\t" }

\* the longest name isLength({ min: 1, max: 100 }) lets through
MaxNameLength == 100
\* the shortest one
MinNameLength == 1

\* trim(): whitespace is removed from both ends
RECURSIVE TrimStart(_)
TrimStart(str) ==
    IF str # << >> /\ Head(str) \in Whitespace THEN TrimStart(Tail(str)) ELSE str
RECURSIVE TrimEnd(_)
TrimEnd(str) ==
    IF str # << >> /\ str[Len(str)] \in Whitespace
    THEN TrimEnd(SubSeq(str, 1, Len(str) - 1)) ELSE str
trim(str) == TrimEnd(TrimStart(str))

\* .isLength({ min: 1, max: 100 })
isLength(str) == Len(str) >= MinNameLength /\ Len(str) <= MaxNameLength

\* .matches(/^[a-zA-Z\s'-]+$/)
matchesNamePattern(str) ==
    /\ Len(str) >= 1
    /\ \A i \in 1..Len(str) : str[i] \in Letters \cup Whitespace \cup { "'", "-" }

\* the errors of the name chain, on the trimmed name: isLength has no message
\* of its own, .withMessage belongs to .matches
NameErrors(name) ==
    (IF isLength(name) THEN << >> ELSE << "Invalid value" >>)
    \o (IF matchesNamePattern(name) THEN << >>
        ELSE << "Name must contain only letters, spaces, hyphens, and apostrophes" >>)

\* the custom validator of dateOfBirth, at clock reading t
DateRangeErrors(value, t) ==
    LET date    == NewDate(value)
        nowDate == Date(t)
        minDate == NewDate(DateString(1900, 1, 1))
    IN  IF DateGt(date, nowDate) THEN << "Date of birth cannot be in the future" >>
        ELSE IF DateLt(date, minDate) THEN << "Date of birth must be after 1900" >>
        ELSE << >>

\* the errors of the dateOfBirth chain: every validator of a chain runs
DateErrors(value, t) ==
    (IF isISO8601(value) THEN << >> ELSE << "Invalid date format" >>)
    \o DateRangeErrors(value, t)

\* validationResult(req).array() for a request body, at clock reading t
ValidationErrors(body, t) == NameErrors(trim(body.name)) \o DateErrors(body.dateOfBirth, t)

(***************************************************************************)
(* The server: data.json, the clock and the request handlers.              *)
(***************************************************************************)
VARIABLES
    store,          \* the array in data.json, newest entry first
    now,            \* the clock, Date.now(), in ticks
    tzOffset,       \* the server's time zone, in ticks ahead of UTC
    pc,             \* per handler: "idle", "reading" (in await readData()),
                    \* "writing" (in await writeData())
    req,            \* per handler: the body of its request, as received; it and
    entry,          \* the entry object of lines 190-196 last until Deliver
    existingData,   \* per handler: its array existingData
    writeCalls,     \* per handler: the writeData() calls of its request that settled
    resp,           \* the response a POST handler sent in the last step, if any
    respTo,         \* the handler that sent it (0 when none)
    recentResp,     \* the response GET /api/recent sent in the last step, if any
    calls,          \* number of calls of calculateZodiacSign
    created,        \* the entries of the POSTs answered with success, newest first
    oldCount,       \* the number of entries data.json held when the server started
    overlap,        \* whether two POSTs were ever in progress at once
    readFailed,     \* whether a read of data.json ever failed
    cMonth, cDay,   \* the classifier on its own: its input,
    cOrder,         \* the order in which the table is scanned,
    cResult         \* and its result ("" before the call)

serverVars == << store, now, tzOffset, pc, req, entry, existingData, writeCalls, resp, respTo, recentResp,
                 calls, created, oldCount, overlap, readFailed >>
classifierVars == << cMonth, cDay, cOrder, cResult >>
vars == << serverVars, classifierVars >>

Procs == 1..NumProcs

\* the retention bound of lines 205-206
MaxEntries == 100
\* the number of entries GET /api/recent serves
RecentCount == 10

\* the day the run starts on; the clock starts at that day's last tick
Today == DateString(2024, 3, 20)
Tomorrow == DateString(2024, 3, 21)
StartNow == DaysFromCivil(Today.year, Today.month, Today.day) * TicksPerDay + TicksPerDay - 1

Rep(c, n) == [i \in 1..n |-> c]
JohnDoe == << "J", "o", "h", "n", " ", "D", "o", "e" >>
Al == << "A", "l" >>
Body(name, dateOfBirth) == [name |-> name, dateOfBirth |-> dateOfBirth]

\* the request bodies of the runs
Bodies ==
    { Body(JohnDoe, DateString(1990, 5, 15)),
      Body(<< " " >> \o Rep("a", MaxNameLength) \o << " " >>, DateString(1900, 1, 1)),
      Body(Al, DateString(2000, 1, 20)),
      Body(Al, Tomorrow),
      Body(Al, WeekString(2000, 1)),
      Body(<< "A", "\t", "l" >>, DateString(1990, 5, 15)),
      Body(<< "J", "o", "h", "n", "3" >>, DateString(1990, 5, 15)),
      Body(<< " ", " " >>, DateString(1990, 5, 15)),
      Body(Rep("a", MaxNameLength + 1), DateString(1990, 5, 15)),
      Body(Al, DateString(1899, 12, 31)),
      Body(Al, TextString) }

\* entries that earlier runs of the server left in data.json: initializeDataFile
\* keeps an existing file
OldEntry(i) ==
    [id |-> StartNow - i, name |-> << "O", "l", "d" >>,
     dateOfBirth |-> DateString(1990, 5, 15), zodiacSign |-> "Taurus",
     timestamp |-> toISOString(StartNow - i)]
OldData(n) == [i \in 1..n |-> OldEntry(i)]
\* the installations of the runs: the server's time zone and the number of
\* entries data.json holds at the start
Installations ==
    { [tz |-> 0, size |-> 0],
      [tz |-> 0 - 1, size |-> RecentCount - 1],
      [tz |-> 1, size |-> MaxEntries] }

NoEntry == [id |-> 0, name |-> << >>, dateOfBirth |-> TextString,
            zodiacSign |-> "", timestamp |-> << >>]
NoBody == Body(<< >>, TextString)
NoResponse == [status |-> 0]

\* push(entry) in place of unshift(entry) (a variant the properties must tell from the code)
PushSplice(data, e) ==
    LET all == data \o << e >>
    IN  IF Len(all) > MaxEntries THEN SubSeq(all, 1, MaxEntries) ELSE all

\* lines 202-207: unshift(entry), then splice(100) when longer than 100
UnshiftSplice(data, e) ==
    LET all == << e >> \o data
    IN  IF Len(all) > MaxEntries THEN SubSeq(all, 1, MaxEntries) ELSE all

\* the message of line 216
Message(name, zodiacSign) == << "Hello ", name, "! Your zodiac sign is ", zodiacSign, "." >>

\* lines 236-241: slice(0, 10) and the projection
Project(e) == [id |-> e.id, name |-> e.name, zodiacSign |-> e.zodiacSign,
               timestamp |-> e.timestamp]
RecentEntries(data) ==
    [i \in 1..(IF Len(data) < RecentCount THEN Len(data) ELSE RecentCount) |-> Project(data[i])]

Init ==
    /\ \E inst \in Installations :
          /\ tzOffset = inst.tz
          /\ oldCount = inst.size
          /\ store = OldData(inst.size)
    /\ now = StartNow
    /\ pc = [p \in Procs |-> "idle"]
    /\ req = [p \in Procs |-> NoBody]
    /\ entry = [p \in Procs |-> NoEntry]
    /\ existingData = [p \in Procs |-> << >>]
    /\ writeCalls = [p \in Procs |-> 0]
    /\ resp = NoResponse
    /\ respTo = 0
    /\ recentResp = NoResponse
    /\ calls = 0
    /\ created = << >>
    /\ overlap = FALSE
    /\ readFailed = FALSE
    /\ cMonth = 0 /\ cDay = 0 /\ cOrder = 0 /\ cResult = ""

\* no response is on its way out: a response leaves the server (Deliver) before
\* the server's next step
Quiet == resp = NoResponse /\ recentResp = NoResponse

\* POST /api/zodiac, lines 174-199: validation; on errors the 400 response;
\* otherwise the classifier, the entry object and the call of readData().
\* The handlers are alike: a request is taken by the lowest idle one.
Submit(p, body) ==
    /\ Quiet
    /\ pc[p] = "idle"
    /\ \A q \in Procs : q < p => pc[q] # "idle"
    /\ LET errors == ValidationErrors(body, now)
           name == trim(body.name)    \* the chain's .trim() rewrites req.body.name
           birthDate == NewDate(body.dateOfBirth)
           zodiacSign == SignOfDate(birthDate, tzOffset)
       IN  IF errors # << >>
           THEN /\ resp' = [status |-> 400, success |-> FALSE, errors |-> errors]
                /\ respTo' = p
                /\ req' = [req EXCEPT ![p] = body]
                /\ UNCHANGED << pc, entry, calls, overlap >>
           ELSE /\ calls < MaxSubmits
                /\ req' = [req EXCEPT ![p] = body]
                /\ entry' = [entry EXCEPT ![p] =
                                [id |-> now, name |-> trim(name),
                                 dateOfBirth |-> body.dateOfBirth,
                                 zodiacSign |-> zodiacSign,
                                 timestamp |-> toISOString(now)]]
                /\ calls' = calls + 1
                /\ pc' = [pc EXCEPT ![p] = "reading"]
                /\ UNCHANGED << resp, respTo >>
                /\ overlap' = (overlap \/ \E q \in Procs \ {p} : pc[q] # "idle")
    /\ UNCHANGED << store, now, tzOffset, existingData, writeCalls, recentResp, created,
                    oldCount, readFailed, classifierVars >>

\* readData() settles (with [] when the read or the parse fails), then lines
\* 202-210 run up to the call of writeData()
SubmitRead(p, ok) ==
    /\ Quiet
    /\ pc[p] = "reading"
    /\ existingData' = [existingData EXCEPT ![p] =
                            UnshiftSplice(IF ok THEN store ELSE << >>, entry[p])]
    /\ readFailed' = (readFailed \/ ~ok)
    /\ pc' = [pc EXCEPT ![p] = "writing"]
    /\ UNCHANGED << store, now, tzOffset, req, entry, writeCalls, resp, respTo, recentResp,
                    calls, created, oldCount, overlap, classifierVars >>

\* the message of the Error that writeData throws (line 165)
WriteErrorDetail == "Failed to save data"

\* writeData() without the throw of line 165: a failed write is only logged and
\* the handler goes on to the success response (a variant the properties must
\* tell from the code)
SubmitWriteSwallowed(p, ok) ==
    /\ Quiet
    /\ pc[p] = "writing"
    /\ store' = (IF ok THEN existingData[p] ELSE store)
    /\ resp' = [status |-> 200, success |-> TRUE,
                 zodiacSign |-> entry[p].zodiacSign,
                 message |-> Message(trim(req[p].name), entry[p].zodiacSign)]
    /\ created' = << entry[p] >> \o created
    /\ respTo' = p
    /\ pc' = [pc EXCEPT ![p] = "idle"]
    /\ existingData' = [existingData EXCEPT ![p] = << >>]
    /\ writeCalls' = [writeCalls EXCEPT ![p] = @ + 1]
    /\ UNCHANGED << now, tzOffset, req, entry, recentResp, calls, oldCount, overlap, readFailed,
                    classifierVars >>

\* writeData() settles: the file is replaced and the success response sent, or
\* the write failed and the catch of line 220 answers 500
SubmitWrite(p, ok) ==
    /\ Quiet
    /\ pc[p] = "writing"
    /\ IF ok
       THEN /\ store' = existingData[p]
            /\ resp' = [status |-> 200, success |-> TRUE,
                         zodiacSign |-> entry[p].zodiacSign,
                         message |-> Message(trim(req[p].name), entry[p].zodiacSign)]
            /\ created' = << entry[p] >> \o created
       ELSE /\ resp' = [status |-> 500, success |-> FALSE,
                         message |-> "Internal server error"]
            /\ UNCHANGED << store, created >>
    /\ respTo' = p
    /\ pc' = [pc EXCEPT ![p] = "idle"]
    /\ existingData' = [existingData EXCEPT ![p] = << >>]
    /\ writeCalls' = [writeCalls EXCEPT ![p] = @ + 1]
    /\ UNCHANGED << now, tzOffset, req, entry, recentResp, calls, oldCount, overlap, readFailed,
                    classifierVars >>

\* GET /api/recent, lines 232-246
Recent(ok) ==
    /\ Quiet
    /\ recentResp' = [status |-> 200, success |-> TRUE,
                      data |-> RecentEntries(IF ok THEN store ELSE << >>)]
    /\ readFailed' = (readFailed \/ ~ok)
    /\ UNCHANGED << store, now, tzOffset, pc, req, entry, existingData, writeCalls, resp,
                    respTo, calls, created, oldCount, overlap, classifierVars >>

\* the clock advances
Tick ==
    /\ Quiet
    /\ now < StartNow + MaxTicks
    /\ now' = now + 1
    /\ UNCHANGED << store, tzOffset, pc, req, entry, existingData, writeCalls, resp, respTo,
                    recentResp,
                    calls, created, oldCount, overlap, readFailed, classifierVars >>

\* the response of the last step has left the server, and its handler returned
Deliver ==
    /\ ~Quiet
    /\ resp' = NoResponse /\ respTo' = 0 /\ recentResp' = NoResponse
    /\ req' = [p \in Procs |-> IF p = respTo THEN NoBody ELSE req[p]]
    /\ entry' = [p \in Procs |-> IF p = respTo THEN NoEntry ELSE entry[p]]
    /\ writeCalls' = [p \in Procs |-> IF p = respTo THEN 0 ELSE writeCalls[p]]
    /\ UNCHANGED << store, now, tzOffset, pc, existingData, calls, created,
                    oldCount, overlap, readFailed, classifierVars >>

Next ==
    \/ \E p \in Procs, body \in Bodies : Submit(p, body)
    \/ \E p \in Procs, ok \in BOOLEAN : SubmitRead(p, ok)
    \/ \E p \in Procs, ok \in BOOLEAN : SubmitWrite(p, ok)
    \/ \E ok \in BOOLEAN : Recent(ok)
    \/ Deliver
    \/ Tick

Spec == Init /\ [][Next]_vars

(***************************************************************************)
(* The classifier on its own: one call of calculateZodiacSign for each     *)
(* (month, day) of a calendar year, scanning the table in a given order.   *)
(***************************************************************************)
\* the (month, day) pairs of a leap year: its 366 days
CalendarPairs ==
    { << CivilFromDays(n).month, CivilFromDays(n).day >> :
        n \in DaysFromCivil(2024, 1, 1)..DaysFromCivil(2024, 12, 31) }

\* scan orders: order k starts at entry 1 + (k % 12) and goes round the table,
\* forwards for k < 12 and backwards for k >= 12; order 0 is the code's
ScanOrders == 0..(2 * Len(zodiacSigns) - 1)
TableInOrder(k) ==
    LET n == Len(zodiacSigns)
    IN  [i \in 1..n |->
            zodiacSigns[IF k < n THEN 1 + ((k + i - 1) % n)
                        ELSE 1 + ((k + n - i) % n)]]

ClassifierInit ==
    /\ store = << >> /\ now = StartNow /\ tzOffset = 0 /\ oldCount = 0
    /\ pc = [p \in Procs |-> "idle"]
    /\ req = [p \in Procs |-> NoBody]
    /\ entry = [p \in Procs |-> NoEntry]
    /\ existingData = [p \in Procs |-> << >>]
    /\ writeCalls = [p \in Procs |-> 0]
    /\ resp = NoResponse /\ respTo = 0 /\ recentResp = NoResponse
    /\ calls = 0 /\ created = << >> /\ overlap = FALSE /\ readFailed = FALSE
    /\ \E pair \in CalendarPairs : cMonth = pair[1] /\ cDay = pair[2]
    /\ cOrder \in ScanOrders
    /\ cResult = ""

\* the for loop of lines 109-126 over the table in order cOrder
Classify ==
    /\ cResult = ""
    /\ cResult' = ScanTable(TableInOrder(cOrder), cMonth, cDay)
    /\ UNCHANGED << serverVars, cMonth, cDay, cOrder >>

ClassifierNext == Classify

SpecClassifier == ClassifierInit /\ [][ClassifierNext]_vars

(***************************************************************************)
(* The sign classifier: properties.                                        *)
(***************************************************************************)
SignNames == { zodiacSigns[i].sign : i \in 1..Len(zodiacSigns) }
MatchingEntries(month, day) ==
    { i \in 1..Len(zodiacSigns) : Matches(zodiacSigns[i], month, day) }

\* C1: for every (month, day) of a calendar year exactly one table entry
\* matches, so the result is one of the twelve sign names, never 'Unknown', and
\* is the same in whatever order the table is scanned.
C1_ExactlyOneSign ==
    cResult # "" =>
        /\ Cardinality(MatchingEntries(cMonth, cDay)) = 1
        /\ Cardinality(SignNames) = 12
        /\ cResult \in SignNames
        /\ cResult # "Unknown"
        /\ cResult = calculateZodiacSign(cMonth, cDay)

\* a scan in an order other than the code's has classified February 29
C1_Witness ==
    /\ cMonth = 2 /\ cDay = 29 /\ cOrder = 17
    /\ cResult = "Pisces"

\* the date ranges of the README: sign, first month and day, last month and day
DocumentedRanges ==
    { << "Aries", 3, 21, 4, 19 >>, << "Taurus", 4, 20, 5, 20 >>,
      << "Gemini", 5, 21, 6, 20 >>, << "Cancer", 6, 21, 7, 22 >>,
      << "Leo", 7, 23, 8, 22 >>, << "Virgo", 8, 23, 9, 22 >>,
      << "Libra", 9, 23, 10, 22 >>, << "Scorpio", 10, 23, 11, 21 >>,
      << "Sagittarius", 11, 22, 12, 21 >>, << "Capricorn", 12, 22, 1, 19 >>,
      << "Aquarius", 1, 20, 2, 18 >>, << "Pisces", 2, 19, 3, 20 >> }

\* (month, day) lies in a range, both ends included; a range whose end is
\* earlier in the year than its start runs over the new year
InRange(r, month, day) ==
    LET first == r[2] * 100 + r[3]
        last  == r[4] * 100 + r[5]
        key   == month * 100 + day
    IN  IF first <= last THEN first <= key /\ key <= last
        ELSE key >= first \/ key <= last

\* C2: calculateZodiacSign returns the sign whose documented range, both ends
\* included, contains the day; so does the scan in the code's order.
C2_DocumentedSign ==
    (cResult # "" /\ cOrder = 0) =>
        /\ \E r \in DocumentedRanges : InRange(r, cMonth, cDay) /\ cResult = r[1]
        /\ \A r \in DocumentedRanges : InRange(r, cMonth, cDay) => cResult = r[1]
        /\ (cMonth = 5 /\ cDay = 15) => cResult = "Taurus"
        /\ (cMonth = 1 /\ cDay = 19) => cResult = "Capricorn"
        /\ (cMonth = 1 /\ cDay = 20) => cResult = "Aquarius"
        /\ (cMonth = 12 /\ cDay = 22) => cResult = "Capricorn"
        /\ (cMonth = 3 /\ cDay = 21) => cResult = "Aries"
        /\ (cMonth = 3 /\ cDay = 20) => cResult = "Pisces"

\* the last day of a range that ends in the month after its start: January 19
C2_Witness ==
    /\ cMonth = 1 /\ cDay = 19 /\ cOrder = 0
    /\ cResult = "Capricorn"

(***************************************************************************)
(* The server: properties.                                                 *)
(***************************************************************************)
Range(seq) == { seq[i] : i \in 1..Len(seq) }
Min(a, b) == IF a < b THEN a ELSE b
AllIdle == \A p \in Procs : pc[p] = "idle"

\* every entry ever inserted, newest first: those of the POSTs answered with
\* success, then those data.json held at the start
Inserted == created \o OldData(oldCount)

\* C3: a success response answers a Submit that passes validation; it carries
\* the classifier's sign for the submitted date and the message "Hello {name}!
\* Your zodiac sign is {sign}.", and the Submit's record (trimmed name,
\* submitted dateOfBirth, that sign) is then the head of the stored list and
\* the only record of the list that was not inserted before.
C3_SubmitSuccess ==
    (resp # NoResponse /\ resp.success) =>
        \E p \in Procs :
            /\ respTo = p
            /\ LET body == req[p]
                   sign == SignOfDate(NewDate(body.dateOfBirth), tzOffset)
                   before == Range(Tail(Inserted))
               IN  /\ ValidationErrors(body, now) = << >>
                   /\ resp.zodiacSign = sign
                   /\ resp.message = Message(trim(body.name), sign)
                   /\ store # << >> /\ created # << >>
                   /\ Head(store) = Head(created)
                   /\ Head(store).name = trim(body.name)
                   /\ Head(store).dateOfBirth = body.dateOfBirth
                   /\ Head(store).zodiacSign = sign
                   /\ \A i \in 2..Len(store) : store[i] \in before

\* "John Doe", 1990-05-15 has been answered "... Your zodiac sign is Taurus."
\* and its record heads a list that held entries before
C3_Witness ==
    /\ resp # NoResponse /\ resp.status = 200
    /\ resp.message = Message(JohnDoe, "Taurus")
    /\ Len(store) > 1
    /\ store[1].name = JohnDoe /\ store[1].zodiacSign = "Taurus"

\* the cases in which C4 says a Submit is rejected
DateKey(y, m, d) == y * 10000 + m * 100 + d
CurrentDate(t) == CivilFromDays(t \div TicksPerDay)
C4_Rejected(body, t) ==
    LET name == trim(body.name)
        dob  == body.dateOfBirth
        cur  == CurrentDate(t)
    IN  \/ name = << >>
        \/ Len(name) > 100
        \/ \E i \in 1..Len(name) : name[i] \notin Letters \cup { " ", "-", "'" }
        \/ /\ dob.fmt = "date"
           /\ DateKey(dob.year, dob.month, dob.day) > DateKey(cur.year, cur.month, cur.day)
        \/ /\ dob.fmt = "date"
           /\ DateKey(dob.year, dob.month, dob.day) < DateKey(1900, 1, 1)

\* C4: a Submit whose trimmed name is empty, longer than 100 characters or
\* holds a character other than a letter, space, hyphen or apostrophe, or whose
\* dateOfBirth is later than the current date or earlier than 1900-01-01, is
\* answered success:false with a non-empty error list; the classifier is not
\* called and the stored list is unchanged.
C4_InvalidRejected ==
    [][ \A p \in Procs, body \in Bodies :
            (Submit(p, body) /\ C4_Rejected(body, now)) =>
                /\ resp'.status = 400 /\ ~resp'.success
                /\ resp'.errors # << >>
                /\ calls' = calls
                /\ store' = store
      ]_vars

\* C5: the stored list never holds more than 100 records, and once more than
\* 100 records have been inserted it holds the 100 most recently inserted ones,
\* newest first (stated for runs without a failed read, when no Submit is in
\* progress).
C5_CapKeepsNewest ==
    /\ Len(store) <= MaxEntries
    /\ (AllIdle /\ ~readFailed /\ Len(Inserted) > MaxEntries)
          => store = SubSeq(Inserted, 1, MaxEntries)

\* C6: after n >= 1 Submits that completed one after the other with success, Recent
\* returns the min(n, 10) most recently created records, newest first, as
\* identifier, name, zodiacSign and timestamp, and leaves the stored list
\* unchanged.
C6_RecentNewestTen ==
    [][ \A ok \in BOOLEAN :
            (Recent(ok) /\ ~overlap /\ AllIdle /\ created # << >>) =>
                /\ recentResp'.success
                /\ recentResp'.data =
                      [i \in 1..Min(Len(Inserted), RecentCount) |-> Project(Inserted[i])]
                /\ store' = store
      ]_vars

\* C7: once every Submit has completed, the record of each Submit answered
\* with success is in the stored list, unless 100 or more inserts followed it
\* (stated for runs without a failed read).
C7_NoLostUpdate ==
    (AllIdle /\ ~readFailed) =>
        \A i \in 1..Min(Len(created), MaxEntries) : created[i] \in Range(store)

\* C8: the identifiers of the stored records are pairwise distinct.
C8_UniqueIds ==
    \A i, j \in 1..Len(store) : i # j => store[i].id # store[j].id

\* C9: a Submit leaves every record that it does not push beyond the 100-record
\* cap stored, unchanged and in the same order (stated for Submits that do not
\* overlap another Submit).
C9_AppendOnly ==
    [][ (store' # store /\ ~overlap') =>
            /\ Len(store') = Min(Len(store) + 1, MaxEntries)
            /\ \A i \in 2..Len(store') : store'[i] = store[i - 1]
      ]_vars

\* C10: no record with a defaulted sign is stored, and no success response
\* carries one.
C10_NoDefaultedSign ==
    /\ \A i \in 1..Len(store) : store[i].zodiacSign \in SignNames
    /\ (resp # NoResponse /\ resp.status = 200) => resp.zodiacSign \in SignNames

\* C11: a Submit calls writeData once; when that write fails the response is
\* exactly status 500, success false and the message 'Internal server error',
\* without the detail of the error, and a success response is sent only with the
\* Submit's record written.
C11_WriteFailure ==
    \A p \in Procs :
        /\ writeCalls[p] <= 1
        /\ writeCalls[p] = 1 =>
              /\ respTo = p /\ pc[p] = "idle"
              /\ \/ /\ resp.success
                    /\ store # << >> /\ Head(store) = entry[p]
                 \/ /\ resp = [status |-> 500, success |-> FALSE,
                               message |-> "Internal server error"]
                    /\ resp.message # WriteErrorDetail

\* a write of a record to a non-empty data.json has failed and been answered,
\* the file being as it was
C11_Witness ==
    /\ resp # NoResponse /\ resp.status = 500 /\ ~resp.success
    /\ respTo # 0 /\ writeCalls[respTo] = 1
    /\ store = OldData(oldCount) /\ oldCount > 0

\* a dateOfBirth that denotes a real calendar date, and one that lies between
\* 1900-01-01 and the current date of time t
WellFormedDate(value) ==
    /\ value.fmt = "date"
    /\ value.month \in 1..12 /\ value.day >= 1
    /\ CivilFromDays(DaysFromCivil(value.year, value.month, value.day))
          = [year |-> value.year, month |-> value.month, day |-> value.day]
InDateRange(value, t) ==
    LET cur == CurrentDate(t)
        key == DateKey(value.year, value.month, value.day)
    IN  key >= DateKey(1900, 1, 1) /\ key <= DateKey(cur.year, cur.month, cur.day)

\* C12: the classifier is called, and a record is stored, only for a dateOfBirth
\* that is a real calendar date between 1900-01-01 and the current date of the
\* request; any other dateOfBirth is rejected by validation.
C12_OnlyRealDates ==
    /\ \A p \in Procs :
          entry[p] # NoEntry =>
              /\ WellFormedDate(entry[p].dateOfBirth)
              /\ InDateRange(entry[p].dateOfBirth, entry[p].id)
    /\ \A i \in 1..Len(created) :
          /\ WellFormedDate(created[i].dateOfBirth)
          /\ InDateRange(created[i].dateOfBirth, created[i].id)

\* C13: the sign computed for an accepted YYYY-MM-DD dateOfBirth, in the
\* handler, in its response and in the stored record, is the sign of the month
\* and day written in the string, whatever the server's time zone.
C13_SignOfWrittenDay ==
    /\ \A p \in Procs :
          (entry[p] # NoEntry /\ entry[p].dateOfBirth.fmt = "date") =>
              entry[p].zodiacSign
                 = calculateZodiacSign(entry[p].dateOfBirth.month, entry[p].dateOfBirth.day)
    /\ \A i \in 1..Len(created) :
          created[i].dateOfBirth.fmt = "date" =>
              created[i].zodiacSign
                 = calculateZodiacSign(created[i].dateOfBirth.month, created[i].dateOfBirth.day)

\* the entries of the table for which the loop body takes the single-month
\* branch of line 110, and those for which it takes the two-sided branch
SingleMonthEntries ==
    { i \in 1..Len(zodiacSigns) : zodiacSigns[i].startMonth = zodiacSigns[i].endMonth }
TwoSidedEntries ==
    { i \in 1..Len(zodiacSigns) : zodiacSigns[i].startMonth # zodiacSigns[i].endMonth }

\* C14 as stated: eleven entries of the table start and end in the same month
\* and are matched by the single-month rule; Capricorn alone spans a month
\* boundary and is matched by the two-sided rule.
C14_ElevenSingleMonth ==
    cResult # "" =>
        /\ Cardinality(SingleMonthEntries) = 11
        /\ TwoSidedEntries = { i \in 1..Len(zodiacSigns) : zodiacSigns[i].sign = "Capricorn" }
        /\ \A i \in 1..Len(zodiacSigns) :
              zodiacSigns[i].sign = cResult =>
                  (i \in TwoSidedEntries <=> cResult = "Capricorn")

\* C14, amended: each of the twelve entries of the table ends in the month after
\* its start month (January after December), none starts and ends in the same
\* month, and every classification is decided by the two-sided rule of its
\* entry: the start month from the start day on, or the end month up to the end
\* day.
C14_AllTwoSided ==
    /\ Len(zodiacSigns) = 12
    /\ SingleMonthEntries = { }
    /\ \A i \in 1..Len(zodiacSigns) :
          zodiacSigns[i].endMonth = (zodiacSigns[i].startMonth % 12) + 1
    /\ cResult # "" =>
          \E i \in TwoSidedEntries :
              LET zodiac == zodiacSigns[i]
              IN  /\ zodiac.sign = cResult
                  /\ \/ cMonth = zodiac.startMonth /\ cDay >= zodiac.startDay
                     \/ cMonth = zodiac.endMonth /\ cDay <= zodiac.endDay

\* February 18 has been classified, in the code's scan order, by the end-month
\* side of the Aquarius entry, an entry other than Capricorn
C14_Witness ==
    /\ cOrder = 0 /\ cMonth = 2 /\ cDay = 18
    /\ cResult = "Aquarius"
    /\ zodiacSigns[2].sign = "Aquarius" /\ 2 \in TwoSidedEntries

\* the order of the timestamps toISOString gives
TimestampKey(ts) == DateKey(ts[1], ts[2], ts[3]) * TicksPerDay + ts[4]
NewestFirst(data) ==
    \A i \in 1..(Len(data) - 1) :
        TimestampKey(data[i].timestamp) >= TimestampKey(data[i + 1].timestamp)

\* C15: in every state the timestamps of the stored records, read from the
\* head, never increase, and so the entries Recent serves are in that order
\* (stated for runs in which no read of data.json has failed).
C15_OrderedByRecency ==
    ~readFailed =>
        /\ NewestFirst(store)
        /\ recentResp # NoResponse => NewestFirst(recentResp.data)

====
